---------------------------- MODULE Spec2Model ----------------------------
(* In-Flo python backend: the Groq <think> marker parser (groq_chunks),    *)
(* the SSE wrapper (stream_response), the request tracking and provider    *)
(* dispatch of the chat endpoint (server.py), the search/scrape retry loop *)
(* (search_and_scrape), the scraper (fetch_url, scrape_urls), the          *)
(* single-shot pipeline (utils/web_search.py) and the context assembly     *)
(* (sources.py) with the conversation rewrite and the retrieval branch of  *)
(* chat.  Each component has its own specification;                        *)
(* the variables of the other components are left untouched by it.         *)
EXTENDS Integers, Sequences, FiniteSets, TLC

VARIABLES
    \* ---- groq_chunks (utils/query_func.py) ----
    text,            \* the whole text the provider is going to send
    pos,             \* number of characters of text delivered so far
    nfrags,          \* number of deltas delivered so far
    in_think_block,  \* the parser's only state between deltas
    chunks,          \* every (content, thinking) tuple yielded so far
    field_used,      \* some delta carried a non-empty reasoning field
    deltas,          \* the deltas of a stream of whole deltas, as received
    g_pc,            \* "off" | "run" | "done"
    \* ---- stream_response (utils/query_func.py) ----
    sources,          \* the sources argument: None, {} or a source map
    state_cancelled,  \* RequestState.cancelled of the request being streamed
    sent_sources,     \* the local flag of stream_response
    events,           \* every SSE event yielded so far
    pulls,            \* number of chunks pulled from chunk_iterator
    pulled,           \* the chunks pulled from chunk_iterator, in order
    it_state,         \* chunk_iterator: "live" | "exhausted" | "raised"
    s_pc,             \* "off" | "run" | "done" | "raised"
    \* ---- the chat endpoint's request tracking (server.py) ----
    has_active,       \* hasattr(app.state, 'active_requests')
    active_requests,  \* app.state.active_requests
    phase,            \* per request: "new" | "preparing" | "streaming" |
                      \*   "ended" | "closed" | "failed"
    cancelled,        \* per request: RequestState.cancelled
    end_cause,        \* per request: how its handler or stream ended
    cleanup_pending,  \* per request: cleanup is a background task yet to run
    cleanup_error,    \* per request: its cleanup task raised KeyError
    lifespan_pc,      \* "none" | "started" | "stopped"
    provider,         \* per request: the provider given to handle_chat_request
    provider_called,  \* per request: a provider's chunk generator was started
    events_sent,      \* per request: some SSE event went out
    \* ---- search_and_scrape (utils/web_search/search.py) ----
    target_count,          \* argument
    max_attempts,          \* argument
    query_exclusions,      \* how many times exclusion_str is in query
    successful_documents,  \* the documents, each known by its URL
    seen_urls,
    attempt,
    offset,
    result,                \* the returned list
    attempts_log,          \* per attempt: the URLs scraped and those that succeeded
    last_attempt,          \* the latest attempt: what was asked and answered
    ss_pc,                  \* "off" | "loop" | "break" | "done"
    \* ---- sources.py and the retrieval branch of chat (server.py) ----
    results,             \* the ranked list given to process_search_results
    snippet_length,      \* its snippet_length argument
    returned,            \* what process_search_results returned
    request_web_search,  \* request.web_search
    web_results,         \* the documents web_search returned
    web_search_results,  \* "" or the tuple faiss_search returned
    formatted_prompt,    \* which prompt was built, and from what
    conversation,        \* request.conversation as it was received
    forwarded,           \* request.conversation as handle_chat_request gets it
    a_pc,                \* "off" | "idle" | "returned" | "assembled" | "raised"
                         \* | "no_message" (IndexError at conversation[-1])
    \* ---- scrape_urls (utils/web_search/scraper.py) ----
    scrape_input,        \* the argument urls
    outcomes,            \* per position: what the fetch of that URL met
    fetch_results,       \* per position: the ScrapedPage of the finished task
    scraped_documents,   \* the list scrape_urls returned
    c_pc,                \* "off" | "gather" | "returned" | "raised"
    \* ---- web_search (utils/web_search.py) ----
    p_ddg,               \* what DuckDuckGo did when asked
    p_tavily,            \* what Tavily did when asked, if it was
    p_tavily_calls,      \* number of calls of tavily_search
    search_results,      \* the list web_search_urls returned
    p_crawl,             \* what the crawler did
    p_docs,              \* the list web_search returned
    p_pc                 \* "off" | "search" | "crawl" | "returned" | "raised"

gvars == <<text, pos, nfrags, in_think_block, chunks, field_used, deltas, g_pc>>

avars == <<results, snippet_length, returned, request_web_search, web_results,
           web_search_results, formatted_prompt, conversation, forwarded, a_pc>>

svars == <<sources, state_cancelled, sent_sources, events, pulls, pulled, it_state,
           s_pc>>

rvars == <<has_active, active_requests, phase, cancelled, end_cause,
           cleanup_pending, cleanup_error, lifespan_pc, provider, provider_called,
           events_sent>>

wvars == <<target_count, max_attempts, query_exclusions, successful_documents,
           seen_urls, attempt, offset, result, attempts_log, last_attempt, ss_pc>>

cvars == <<scrape_input, outcomes, fetch_results, scraped_documents, c_pc>>

pvars == <<p_ddg, p_tavily, p_tavily_calls, search_results, p_crawl, p_docs, p_pc>>

vars == <<gvars, svars, rvars, wvars, avars, cvars, pvars>>

-----------------------------------------------------------------------------
(* Python values.  A str is a sequence of one-character strings; None is    *)
(* a value different from every str.                                        *)
None == <<"None">>

Truthy(x) == x # None /\ x # <<>>

Take(s, n) == SubSeq(s, 1, n)

Drop(s, n) == SubSeq(s, n + 1, Len(s))

\* str.find(m): the lowest 0-based index where m occurs in s, -1 if none
Find(s, m) ==
    LET hits == {i \in 0..(Len(s) - Len(m)) : SubSeq(s, i + 1, i + Len(m)) = m}
    IN  IF hits = {} THEN -1
        ELSE CHOOSE i \in hits : \A j \in hits : i <= j

ThinkStart == <<"<", "t", "h", "i", "n", "k", ">">>

ThinkEnd == <<"<", "/", "t", "h", "i", "n", "k", ">">>

StartSkip == 7

EndSkip == 8

-----------------------------------------------------------------------------
(* groq_chunks: the while loop over temp_content of one delta.              *)
RECURSIVE ScanFragment(_, _, _, _)
ScanFragment(temp_content, in_think, result_content, result_thinking) ==
    IF temp_content = <<>>
    THEN [content |-> result_content, thinking |-> result_thinking,
          in_think |-> in_think]
    ELSE IF ~in_think
    THEN LET think_start == Find(temp_content, ThinkStart)
         IN  IF think_start # -1
             THEN ScanFragment(Drop(temp_content, think_start + StartSkip), TRUE,
                               result_content \o Take(temp_content, think_start),
                               result_thinking)
             ELSE ScanFragment(<<>>, in_think,
                               result_content \o temp_content, result_thinking)
    ELSE LET think_end == Find(temp_content, ThinkEnd)
         IN  IF think_end # -1
             THEN ScanFragment(Drop(temp_content, think_end + EndSkip), FALSE,
                               result_content,
                               result_thinking \o Take(temp_content, think_end))
             ELSE ScanFragment(<<>>, in_think,
                               result_content, result_thinking \o temp_content)

\* result_thinking or None
OrNone(s) == IF s = <<>> THEN None ELSE s

\* the chunks one delta yields and the parser state it leaves
\* variant: without "if not content: continue" and without
\* "if result_content or result_thinking", every delta yields
GroqDeltaResultAlways(content, reasoning, in_think) ==
    IF Truthy(reasoning)
    THEN [yields |-> <<<<(<<>>), reasoning>>>>
                     \o (IF content # <<>> THEN <<<<content, None>>>> ELSE <<>>),
          in_think |-> in_think]
    ELSE LET r == ScanFragment(content, in_think, <<>>, <<>>)
         IN  [yields |-> <<<<r.content, OrNone(r.thinking)>>>>,
              in_think |-> r.in_think]

\* variant: a fragment that begins like a marker and holds no whole marker
\* is kept back, nothing is yielded for it
GroqDeltaResultHoldBack(content, reasoning, in_think) ==
    IF Truthy(reasoning)
    THEN [yields |-> <<<<(<<>>), reasoning>>>>
                     \o (IF content # <<>> THEN <<<<content, None>>>> ELSE <<>>),
          in_think |-> in_think]
    ELSE IF content = <<>>
    THEN [yields |-> <<>>, in_think |-> in_think]
    ELSE LET r == ScanFragment(content, in_think, <<>>, <<>>)
         IN  [yields |-> IF content[1] = "<" /\ r.in_think = in_think
                         THEN <<>>
                         ELSE IF r.content # <<>> \/ r.thinking # <<>>
                         THEN <<<<r.content, OrNone(r.thinking)>>>>
                         ELSE <<>>,
              in_think |-> r.in_think]

\* variant: without "if content" after the reasoning chunk, the content of a
\* delta with a reasoning field is yielded also when it is empty
GroqDeltaResultEmptyContent(content, reasoning, in_think) ==
    IF Truthy(reasoning)
    THEN [yields |-> <<<<(<<>>), reasoning>>, <<content, None>>>>,
          in_think |-> in_think]
    ELSE IF content = <<>>
    THEN [yields |-> <<>>, in_think |-> in_think]
    ELSE LET r == ScanFragment(content, in_think, <<>>, <<>>)
         IN  [yields |-> IF r.content # <<>> \/ r.thinking # <<>>
                         THEN <<<<r.content, OrNone(r.thinking)>>>>
                         ELSE <<>>,
              in_think |-> r.in_think]

\* variant: the content of a delta with a reasoning field goes through the
\* marker scan as well
GroqDeltaResultScanField(content, reasoning, in_think) ==
    LET r == ScanFragment(content, in_think, <<>>, <<>>)
        scanned == IF r.content # <<>> \/ r.thinking # <<>>
                   THEN <<<<r.content, OrNone(r.thinking)>>>>
                   ELSE <<>>
    IN  [yields |-> (IF Truthy(reasoning) THEN <<<<(<<>>), reasoning>>>> ELSE <<>>)
                    \o scanned,
         in_think |-> r.in_think]

GroqDeltaResult(content, reasoning, in_think) ==
    IF Truthy(reasoning)
    THEN [yields |-> <<<<(<<>>), reasoning>>>>
                     \o (IF content # <<>> THEN <<<<content, None>>>> ELSE <<>>),
          in_think |-> in_think]
    ELSE IF content = <<>>
    THEN [yields |-> <<>>, in_think |-> in_think]
    ELSE LET r == ScanFragment(content, in_think, <<>>, <<>>)
         IN  [yields |-> IF r.content # <<>> \/ r.thinking # <<>>
                         THEN <<<<r.content, OrNone(r.thinking)>>>>
                         ELSE <<>>,
              in_think |-> r.in_think]

-----------------------------------------------------------------------------
(* Inputs of the parser: texts put together from marker and plain pieces,  *)
(* cut into deltas at arbitrary positions.                                  *)
MaxPieces == 2

MaxFrags == 3

Pieces == {ThinkStart, ThinkEnd, <<"a">>}

RECURSIVE TextsOf(_)
TextsOf(n) ==
    IF n = 0 THEN {<<>>}
    ELSE LET shorter == TextsOf(n - 1)
         IN  shorter \cup {t \o p : t \in shorter, p \in Pieces}

Texts == TextsOf(MaxPieces) \ {<<>>}

ReasoningFields == {None, <<"r">>}

GroqOff ==
    /\ text = <<>>
    /\ pos = 0
    /\ nfrags = 0
    /\ in_think_block = FALSE
    /\ chunks = <<>>
    /\ field_used = FALSE
    /\ deltas = <<>>
    /\ g_pc = "off"

GroqInit ==
    /\ text \in Texts
    /\ pos = 0
    /\ nfrags = 0
    /\ in_think_block = FALSE
    /\ chunks = <<>>
    /\ field_used = FALSE
    /\ deltas = <<>>
    /\ g_pc = "run"

\* one iteration of "for chunk in stream": a delta with the next k characters
\* of the text as its content and an optional reasoning field
GroqDelta ==
    /\ g_pc = "run"
    /\ pos < Len(text)
    /\ \E k \in 0..(Len(text) - pos), reasoning \in ReasoningFields :
          /\ nfrags + 1 = MaxFrags => k = Len(text) - pos
          /\ LET content == SubSeq(text, pos + 1, pos + k)
                 r == GroqDeltaResult(content, reasoning, in_think_block)
             IN  /\ chunks' = chunks \o r.yields
                 /\ in_think_block' = r.in_think
                 /\ field_used' = (field_used \/ Truthy(reasoning))
          /\ pos' = pos + k
          /\ nfrags' = nfrags + 1
    /\ UNCHANGED <<text, deltas, g_pc, svars, rvars, wvars, avars, cvars, pvars>>

\* the provider's stream is exhausted: the generator returns
GroqEnd ==
    /\ g_pc = "run"
    /\ pos = Len(text)
    /\ g_pc' = "done"
    /\ UNCHANGED <<text, pos, nfrags, in_think_block, chunks, field_used, deltas,
                   svars, rvars, wvars, avars, cvars, pvars>>

GroqNext == GroqDelta \/ GroqEnd

\* ---- inputs: a stream of whole deltas ----
MaxDeltas == 4

Partial == <<"p", "a", "r", "t", "i", "a", "l">>

Answer == <<"a", "n", "s", "w", "e", "r">>

\* the fragment a<think>r</think>b
Enclosed == <<"a">> \o ThinkStart \o <<"r">> \o ThinkEnd \o <<"b">>

\* delta.content: a marker alone, a marker-free word, a think block between
\* two letters, or nothing
DeltaContents == {ThinkStart, ThinkEnd, Partial, Answer, Enclosed, <<>>}

\* variant: the parser starts inside a think block
GroqStreamInitInThink ==
    /\ text = <<>>
    /\ pos = 0
    /\ nfrags = 0
    /\ in_think_block = TRUE
    /\ chunks = <<>>
    /\ field_used = FALSE
    /\ deltas = <<>>
    /\ g_pc = "run"

GroqStreamInit ==
    /\ text = <<>>
    /\ pos = 0
    /\ nfrags = 0
    /\ in_think_block = FALSE
    /\ chunks = <<>>
    /\ field_used = FALSE
    /\ deltas = <<>>
    /\ g_pc = "run"

\* one iteration of "for chunk in stream" on a whole delta
GroqWholeDelta ==
    /\ g_pc = "run"
    /\ nfrags < MaxDeltas
    /\ \E content \in DeltaContents, reasoning \in ReasoningFields :
          LET r == GroqDeltaResult(content, reasoning, in_think_block)
          IN  /\ chunks' = chunks \o r.yields
              /\ in_think_block' = r.in_think
              /\ field_used' = (field_used \/ Truthy(reasoning))
              /\ deltas' = Append(deltas, [content |-> content, reasoning |-> reasoning])
              /\ text' = text \o content
              /\ pos' = pos + Len(content)
    /\ nfrags' = nfrags + 1
    /\ UNCHANGED <<g_pc, svars, rvars, wvars, avars, cvars, pvars>>

GroqStreamNext == GroqWholeDelta \/ GroqEnd

-----------------------------------------------------------------------------
(* stream_response: the SSE wrapper around a chunk iterator.                *)
ModelName == <<"m">>

\* format_chunk: the JSON object of a data event; a key is present only
\* when its argument is not None
format_chunk(content, model, srcs, thinking) ==
    IF srcs # None /\ thinking # None
    THEN [content |-> content, model |-> model, sources |-> srcs, thinking |-> thinking]
    ELSE IF srcs # None
    THEN [content |-> content, model |-> model, sources |-> srcs]
    ELSE IF thinking # None
    THEN [content |-> content, model |-> model, thinking |-> thinking]
    ELSE [content |-> content, model |-> model]

\* the event of the except branch: {'error': str(e)}
ErrorEvent == [error |-> <<"e">>]

\* a chunk is a plain str or a (content, thinking) tuple
StrChunk(c) == [tuple |-> FALSE, content |-> c, thinking |-> None]

TupleChunk(c, t) == [tuple |-> TRUE, content |-> c, thinking |-> t]

\* "Normalize chunk to (content, thinking) tuple"
\* variant: the second component of a tuple is dropped
NormalizeContentOnly(chunk) == <<chunk.content, None>>

Normalize(chunk) ==
    IF chunk.tuple THEN <<chunk.content, chunk.thinking>>
    ELSE <<chunk.content, None>>

\* state.is_disconnected()
IsDisconnected == state_cancelled

\* the body of "if content or thinking": the event yielded for a non-empty
\* chunk and the value of sent_sources after it
\* variant: sent_sources is never set, the map goes out with every event
EmitEventResend(content, thinking, sent, srcs) ==
    IF Truthy(srcs)
    THEN [event |-> format_chunk(content, ModelName, srcs, thinking), sent |-> sent]
    ELSE [event |-> format_chunk(content, ModelName, None, thinking), sent |-> sent]

EmitEvent(content, thinking, sent, srcs) ==
    IF ~sent /\ Truthy(srcs)
    THEN [event |-> format_chunk(content, ModelName, srcs, thinking), sent |-> TRUE]
    ELSE [event |-> format_chunk(content, ModelName, None, thinking), sent |-> sent]

\* "except Exception as e: yield ...": what a fault of the iterator leads to
\* variant: no except clause, the fault leaves the generator
OnFaultPropagate(evs) == [events |-> evs, pc |-> "raised"]

OnFault(evs) == [events |-> Append(evs, ErrorEvent), pc |-> "done"]

MaxPulls == 3

ChunkInputs ==
    {StrChunk(c) : c \in {<<>>, <<"x">>}}
    \cup {TupleChunk(c, t) : c \in {<<>>, <<"x">>}, t \in {None, <<>>, <<"t">>}}

SourcesInputs == {None, <<>>, <<"u1">>}

StreamOff ==
    /\ sources = None
    /\ state_cancelled = FALSE
    /\ sent_sources = FALSE
    /\ events = <<>>
    /\ pulls = 0
    /\ pulled = <<>>
    /\ it_state = "live"
    /\ s_pc = "off"

StreamInit ==
    /\ sources \in SourcesInputs
    /\ state_cancelled = FALSE
    /\ sent_sources = FALSE
    /\ events = <<>>
    /\ pulls = 0
    /\ pulled = <<>>
    /\ it_state = "live"
    /\ s_pc = "run"

\* one iteration of "async for chunk in chunk_iterator" that gets a chunk
StreamChunk ==
    /\ s_pc = "run"
    /\ pulls < MaxPulls
    /\ \E chunk \in ChunkInputs :
          LET content == Normalize(chunk)[1]
              thinking == Normalize(chunk)[2]
              e == EmitEvent(content, thinking, sent_sources, sources)
          IN  /\ pulled' = Append(pulled, chunk)
              /\ IF IsDisconnected
                 THEN /\ s_pc' = "done"
                      /\ UNCHANGED <<events, sent_sources>>
                 ELSE IF Truthy(content) \/ Truthy(thinking)
                 THEN /\ events' = Append(events, e.event)
                      /\ sent_sources' = e.sent
                      /\ s_pc' = "run"
                 ELSE UNCHANGED <<events, sent_sources, s_pc>>
    /\ pulls' = pulls + 1
    /\ UNCHANGED <<sources, state_cancelled, it_state, gvars, rvars, wvars, avars, cvars, pvars>>

\* the iterator is exhausted: the loop ends
StreamStop ==
    /\ s_pc = "run"
    /\ it_state' = "exhausted"
    /\ s_pc' = "done"
    /\ UNCHANGED <<sources, state_cancelled, sent_sources, events, pulls, pulled, gvars, rvars, wvars, avars, cvars, pvars>>

\* the iterator raises while the next chunk is pulled
StreamFault ==
    /\ s_pc = "run"
    /\ it_state' = "raised"
    /\ events' = OnFault(events).events
    /\ s_pc' = OnFault(events).pc
    /\ UNCHANGED <<sources, state_cancelled, sent_sources, pulls, pulled, gvars, rvars, wvars, avars, cvars, pvars>>

\* the transport reports the client's disconnect
Disconnect ==
    /\ s_pc = "run"
    /\ ~state_cancelled
    /\ state_cancelled' = TRUE
    /\ UNCHANGED <<sources, sent_sources, events, pulls, pulled, it_state, s_pc, gvars, rvars, wvars, avars, cvars, pvars>>

StreamNext == StreamChunk \/ StreamStop \/ StreamFault \/ Disconnect

-----------------------------------------------------------------------------
(* server.py: the chat endpoint and the set of active requests.  A request *)
(* is known by request_id = id(request); the ids of requests that are      *)
(* alive at the same time differ.                                           *)
NumRequests == 2

Requests == 1..NumRequests

\* CHUNK_GENERATORS / the branches of handle_chat_request
Providers == {"ollama", "huggingface", "openrouter", "groq", "gemini"}

ProviderInputs == {"groq", "mistral"}

\* app.state.active_requests.remove(request_id): set.remove raises KeyError
\* when the element is absent
\* variant: the id is looked up but not taken out
SetRemoveKeep(set, id) == [set |-> set, error |-> id \notin set]

\* variant: the set is emptied
SetRemoveAll(set, id) == [set |-> {}, error |-> id \notin set]

SetRemove(set, id) == [set |-> set \ {id}, error |-> id \notin set]

\* CHUNK_GENERATORS.keys()
ChunkGenerators == {"ollama", "huggingface", "openrouter", "groq", "gemini"}

\* handle_chat_request: the chat function the provider is dispatched to, or
\* the HTTPException of the else branch
\* variant: the else branch dispatches to chat_groq
handle_chat_requestDefault(p) ==
    IF p \in Providers THEN [raised |-> "none", chat |-> p]
    ELSE [raised |-> "none", chat |-> "groq"]

handle_chat_request(p) ==
    IF p \in Providers THEN [raised |-> "none", chat |-> p]
    ELSE [raised |-> "HTTPException", chat |-> "none"]

\* chat_stream: the StreamingResponse over the provider's chunk generator,
\* or ValueError
chat_stream(p) ==
    IF p \in ChunkGenerators THEN [raised |-> "none", response |-> TRUE]
    ELSE [raised |-> "ValueError", response |-> FALSE]

ServerOff ==
    /\ has_active = FALSE
    /\ active_requests = {}
    /\ phase = [r \in Requests |-> "off"]
    /\ cancelled = [r \in Requests |-> FALSE]
    /\ end_cause = [r \in Requests |-> "none"]
    /\ cleanup_pending = [r \in Requests |-> FALSE]
    /\ cleanup_error = [r \in Requests |-> FALSE]
    /\ lifespan_pc = "none"
    /\ provider = [r \in Requests |-> "none"]
    /\ provider_called = [r \in Requests |-> FALSE]
    /\ events_sent = [r \in Requests |-> FALSE]

ServerInit ==
    /\ has_active = FALSE
    /\ active_requests = {}
    /\ phase = [r \in Requests |-> "new"]
    /\ cancelled = [r \in Requests |-> FALSE]
    /\ end_cause = [r \in Requests |-> "none"]
    /\ cleanup_pending = [r \in Requests |-> FALSE]
    /\ cleanup_error = [r \in Requests |-> FALSE]
    /\ lifespan_pc = "none"
    /\ provider = [r \in Requests |-> "none"]
    /\ provider_called = [r \in Requests |-> FALSE]
    /\ events_sent = [r \in Requests |-> FALSE]

\* lifespan, up to the yield
LifespanStartup ==
    /\ lifespan_pc = "none"
    /\ \A r \in Requests : phase[r] = "new"
    /\ active_requests' = {}
    /\ has_active' = TRUE
    /\ lifespan_pc' = "started"
    /\ UNCHANGED <<phase, cancelled, end_cause, cleanup_pending, cleanup_error,
                   provider, provider_called, events_sent,
                   gvars, svars, wvars, avars, cvars, pvars>>

\* lifespan, after the yield
LifespanShutdown ==
    /\ lifespan_pc = "started"
    /\ active_requests' = {}
    /\ lifespan_pc' = "stopped"
    /\ UNCHANGED <<has_active, phase, cancelled, end_cause, cleanup_pending,
                   cleanup_error, provider, provider_called, events_sent,
                   gvars, svars, wvars, avars, cvars, pvars>>

\* chat, up to its first await: the id is added and cleanup is handed to
\* background_tasks
ChatBegin(r) ==
    /\ phase[r] = "new"
    /\ lifespan_pc # "stopped"
    /\ has_active' = TRUE
    /\ active_requests' = (IF has_active THEN active_requests ELSE {}) \cup {r}
    /\ cleanup_pending' = [cleanup_pending EXCEPT ![r] = TRUE]
    /\ phase' = [phase EXCEPT ![r] = "preparing"]
    /\ UNCHANGED <<cancelled, end_cause, cleanup_error, lifespan_pc, provider, provider_called, events_sent,
                   gvars, svars, wvars, avars, cvars, pvars>>

\* chat, from filter_conversation to the return of handle_chat_request.  An
\* exception leaves the handler without a response, and the background tasks
\* of the handler are run only after a response it returned.
ChatDispatch(r) ==
    /\ phase[r] = "preparing"
    /\ \E conversation_len \in 0..1, retrieval_fault \in BOOLEAN,
          p \in ProviderInputs :
          LET dispatch == handle_chat_request(p)
              raised == IF conversation_len = 0 THEN "IndexError"
                        ELSE IF retrieval_fault THEN "Exception"
                        ELSE IF dispatch.raised # "none" THEN dispatch.raised
                        ELSE chat_stream(dispatch.chat).raised
          IN  /\ provider' = [provider EXCEPT ![r] =
                     IF conversation_len = 0 \/ retrieval_fault THEN "none" ELSE p]
              /\ IF raised # "none"
                 THEN /\ phase' = [phase EXCEPT ![r] = "failed"]
                      /\ end_cause' = [end_cause EXCEPT ![r] = raised]
                      /\ cleanup_pending' = [cleanup_pending EXCEPT ![r] = FALSE]
                 ELSE /\ phase' = [phase EXCEPT ![r] = "streaming"]
                      /\ UNCHANGED <<end_cause, cleanup_pending>>
    /\ UNCHANGED <<has_active, active_requests, cancelled, cleanup_error,
                   lifespan_pc, provider_called, events_sent,
                   gvars, svars, wvars, avars, cvars, pvars>>

\* the client of a streaming request disconnects
ClientDisconnect(r) ==
    /\ phase[r] = "streaming"
    /\ ~cancelled[r]
    /\ cancelled' = [cancelled EXCEPT ![r] = TRUE]
    /\ UNCHANGED <<has_active, active_requests, phase, end_cause, cleanup_pending,
                   cleanup_error, lifespan_pc, provider, provider_called, events_sent,
                   gvars, svars, wvars, avars, cvars, pvars>>

\* stream_response returns: the iterator is exhausted ("complete"), the
\* cancellation flag was read true ("cancel") or the iterator raised and the
\* error event was yielded ("fault")
StreamEnd(r) ==
    /\ phase[r] = "streaming"
    /\ \E cause \in {"complete", "cancel", "fault"} :
          /\ cause = "cancel" => cancelled[r]
          /\ end_cause' = [end_cause EXCEPT ![r] = cause]
          /\ \E sent \in BOOLEAN :
                /\ cause = "fault" => sent
                /\ events_sent' = [events_sent EXCEPT ![r] = sent]
    /\ provider_called' = [provider_called EXCEPT ![r] = TRUE]
    /\ phase' = [phase EXCEPT ![r] = "ended"]
    /\ UNCHANGED <<has_active, active_requests, cancelled, cleanup_pending,
                   cleanup_error, lifespan_pc, provider,
                   gvars, svars, wvars, avars, cvars, pvars>>

\* the background task cleanup() of request r, run after its response
Cleanup(r) ==
    /\ phase[r] = "ended"
    /\ cleanup_pending[r]
    /\ cleanup_pending' = [cleanup_pending EXCEPT ![r] = FALSE]
    /\ IF has_active
       THEN /\ active_requests' = SetRemove(active_requests, r).set
            /\ cleanup_error' =
                  [cleanup_error EXCEPT ![r] = SetRemove(active_requests, r).error]
       ELSE UNCHANGED <<active_requests, cleanup_error>>
    /\ phase' = [phase EXCEPT ![r] = "closed"]
    /\ UNCHANGED <<has_active, cancelled, end_cause, lifespan_pc, provider, provider_called, events_sent,
                   gvars, svars, wvars, avars, cvars, pvars>>

ServerNext ==
    \/ LifespanStartup
    \/ LifespanShutdown
    \/ \E r \in Requests : ChatBegin(r)
    \/ \E r \in Requests : ChatDispatch(r)
    \/ \E r \in Requests : ClientDisconnect(r)
    \/ \E r \in Requests : StreamEnd(r)
    \/ \E r \in Requests : Cleanup(r)

-----------------------------------------------------------------------------
(* search_and_scrape: search, drop the URLs already seen, scrape, retry.    *)
Range(s) == {s[i] : i \in 1..Len(s)}

Min(a, b) == IF a <= b THEN a ELSE b

\* list(dict.fromkeys(urls)): the first occurrence of every URL, in order
\* variant: the URL list as the provider gave it, repeats included
UniqueKeepAll(urls) == urls

RECURSIVE Unique(_)
Unique(urls) ==
    IF urls = <<>> THEN <<>>
    ELSE LET front == Unique(SubSeq(urls, 1, Len(urls) - 1))
             last == urls[Len(urls)]
         IN  IF last \in Range(front) THEN front ELSE Append(front, last)

\* search_duckduckgo / search_tavily on the hits the provider answers with,
\* of which it gives at most num_results
search_duckduckgo(hrefs, num_results) == Unique(Take(hrefs, Min(num_results, Len(hrefs))))

search_tavily(hrefs, num_results) == Unique(Take(hrefs, Min(num_results, Len(hrefs))))

\* [url for url in urls if url not in seen_urls]
FilterSeen(urls, seen) == SelectSeq(urls, LAMBDA u : u \notin seen)

\* scrape_urls: the documents of the pages fetched with success, in the
\* order of the URL list (asyncio.gather keeps the order of its tasks)
scrape_urls(urls, ok) == SelectSeq(urls, LAMBDA u : u \in ok)

\* successful_documents[:target_count]
\* variants: the list is returned whole; the last n documents are returned
SliceToNoTrim(docs, n) == docs

SliceToLast(docs, n) ==
    IF n >= Len(docs) THEN docs ELSE SubSeq(docs, Len(docs) - n + 1, Len(docs))

SliceTo(docs, n) ==
    IF n >= 0 THEN Take(docs, Min(n, Len(docs)))
    ELSE Take(docs, IF Len(docs) + n > 0 THEN Len(docs) + n ELSE 0)

Margin == 5

\* what a search provider does when asked: it raises, or answers with hits
Fault == [fault |-> TRUE, hrefs |-> <<>>]

Hits(hrefs) == [fault |-> FALSE, hrefs |-> hrefs]

NoAttempt ==
    [fetch_count |-> 0, exclusions |-> 0, ddg_fault |-> FALSE, ddg_empty |-> FALSE,
     tavily_asked |-> FALSE, tavily_fault |-> FALSE, tavily_answer |-> <<>>,
     urls |-> <<>>, scraped |-> FALSE]

SearchOff ==
    /\ target_count = 0
    /\ max_attempts = 0
    /\ query_exclusions = 0
    /\ successful_documents = <<>>
    /\ seen_urls = {}
    /\ attempt = 0
    /\ offset = 0
    /\ result = <<>>
    /\ attempts_log = <<>>
    /\ last_attempt = NoAttempt
    /\ ss_pc = "off"

SearchStart(targets, tries) ==
    /\ target_count \in targets
    /\ max_attempts \in tries
    /\ query_exclusions = 0
    /\ successful_documents = <<>>
    /\ seen_urls = {}
    /\ attempt = 0
    /\ offset = 0
    /\ result = <<>>
    /\ attempts_log = <<>>
    /\ last_attempt = NoAttempt
    /\ ss_pc = "loop"

\* "try: urls = await search_...(...)  except Exception: urls = []": what
\* the call of a provider leaves in urls, and whether its fault gets out
\* variant: no except clause
TryUncaught(answer, urls) ==
    [urls |-> IF answer.fault THEN <<>> ELSE urls, raised |-> answer.fault]

Try(answer, urls) ==
    [urls |-> IF answer.fault THEN <<>> ELSE urls, raised |-> FALSE]

\* the search of an attempt: DuckDuckGo is asked; "if not urls" Tavily is
\* asked too, and its URLs are the attempt's
\* variants: Tavily is never asked; Tavily is asked in every attempt and its
\* URLs follow DuckDuckGo's
SearchUrlsNoFallback(ddg, tavily, fetch_count) ==
    LET first == Try(ddg, search_duckduckgo(ddg.hrefs, fetch_count))
    IN  [urls |-> first.urls, tavily_asked |-> FALSE, raised |-> first.raised]

SearchUrlsBoth(ddg, tavily, fetch_count) ==
    LET first == Try(ddg, search_duckduckgo(ddg.hrefs, fetch_count))
        second == Try(tavily, search_tavily(tavily.hrefs, fetch_count))
    IN  [urls |-> first.urls \o second.urls, tavily_asked |-> ~first.raised,
         raised |-> first.raised \/ second.raised]

SearchUrls(ddg, tavily, fetch_count) ==
    LET first == Try(ddg, search_duckduckgo(ddg.hrefs, fetch_count))
        asked == ~first.raised /\ first.urls = <<>>
        second == IF asked THEN Try(tavily, search_tavily(tavily.hrefs, fetch_count))
                  ELSE [urls |-> <<>>, raised |-> FALSE]
    IN  [urls |-> IF asked THEN second.urls ELSE first.urls,
         tavily_asked |-> asked,
         raised |-> first.raised \/ second.raised]

\* "while len(successful_documents) < target_count and attempt < max_attempts"
\* variant: the number of attempts is not bounded
LoopConditionNoCap == Len(successful_documents) < target_count

LoopCondition ==
    Len(successful_documents) < target_count /\ attempt < max_attempts

\* "fetch_count = needed + 5 + offset"
\* variant: the offset is left out
FetchCountNoOffset(needed, off) == needed + Margin

FetchCount(needed, off) == needed + Margin + off

\* "if not new_urls: break": where the attempt goes after the filter
\* variant: no break, the attempt goes on to the scraper
AfterFilterNoBreak(new_urls) == "scrape"

AfterFilter(new_urls) == IF new_urls = <<>> THEN "break" ELSE "scrape"

\* one iteration of the while loop: ddg and tavily are what the two providers
\* do if asked, ok is the set of URLs whose scrape succeeds
AttemptBody(ddg, tavily, ok) ==
    /\ ss_pc = "loop"
    /\ LoopCondition
    /\ LET needed == target_count - Len(successful_documents)
           fetch_count == FetchCount(needed, offset)
           search == SearchUrls(ddg, tavily, fetch_count)
           urls == search.urls
           new_urls == FilterSeen(urls, seen_urls)
           documents == scrape_urls(new_urls, ok)
           asked_and_answered ==
               [fetch_count |-> fetch_count,
                exclusions |-> query_exclusions + 1,
                ddg_fault |-> ddg.fault,
                ddg_empty |-> (~ddg.fault
                               /\ search_duckduckgo(ddg.hrefs, fetch_count) = <<>>),
                tavily_asked |-> search.tavily_asked,
                tavily_fault |-> tavily.fault,
                tavily_answer |-> search_tavily(tavily.hrefs, fetch_count),
                urls |-> urls,
                scraped |-> FALSE]
       IN  /\ attempt' = attempt + 1
           /\ query_exclusions' = query_exclusions + 1
           /\ IF search.raised
              THEN /\ ss_pc' = "raised"
                   /\ last_attempt' = asked_and_answered
                   /\ UNCHANGED <<seen_urls, successful_documents, offset,
                                  attempts_log>>
              ELSE /\ seen_urls' = seen_urls \cup Range(new_urls)
                   /\ IF AfterFilter(new_urls) = "break"
                      THEN /\ ss_pc' = "break"
                           /\ UNCHANGED <<successful_documents, offset>>
                      ELSE /\ successful_documents' = successful_documents \o documents
                           /\ offset' = offset + fetch_count
                           /\ ss_pc' = "loop"
                   /\ attempts_log' = Append(attempts_log,
                         [new_urls |-> new_urls, ok |-> ok \cap Range(new_urls),
                          fetch_count |-> fetch_count])
                   /\ last_attempt' =
                         [asked_and_answered EXCEPT
                             !.scraped = (AfterFilter(new_urls) = "scrape")]
    /\ UNCHANGED <<target_count, max_attempts, result, gvars, svars, rvars, avars, cvars, pvars>>

\* the loop is left (its condition is false, or by break) and the list is
\* returned, cut to target_count
Return ==
    /\ \/ ss_pc = "break"
       \/ /\ ss_pc = "loop"
          /\ ~LoopCondition
    /\ result' = SliceTo(successful_documents, target_count)
    /\ ss_pc' = "done"
    /\ UNCHANGED <<target_count, max_attempts, query_exclusions,
                   successful_documents, seen_urls, attempt, offset, attempts_log,
                   last_attempt, gvars, svars, rvars, avars, cvars, pvars>>

\* ---- inputs: a small web ----
NumUrls == 2

MaxHits == 2

MaxTarget == 2

MaxTries == 2

Urls == 1..NumUrls

RECURSIVE HitLists(_)
HitLists(n) ==
    IF n = 0 THEN {<<>>}
    ELSE LET shorter == HitLists(n - 1)
         IN  shorter \cup {Append(h, u) : h \in shorter, u \in Urls}

ProviderAnswers == {Fault} \cup {Hits(h) : h \in HitLists(MaxHits)}

SearchInit == SearchStart(1..MaxTarget, 1..MaxTries)

Attempt ==
    \E ddg \in ProviderAnswers, tavily \in ProviderAnswers :
        /\ (~ddg.fault /\ ddg.hrefs # <<>>) => tavily = Fault
        /\ \E ok \in SUBSET (Range(ddg.hrefs \o tavily.hrefs) \ seen_urls) :
              AttemptBody(ddg, tavily, ok)

SearchNext == Attempt \/ Return

\* ---- inputs: the web of the two-attempt scenario, nine URLs ----
ScenarioAnswers(n) ==
    IF n = 0
    THEN {Fault, Hits(<<1, 2, 3, 4, 5>>), Hits(<<5, 1, 1, 4, 3, 2>>)}
    ELSE {Fault, Hits(<<6, 7, 8, 9>>), Hits(<<1, 6, 2, 7, 8, 8, 9>>),
          Hits(<<9, 5, 8, 7, 6>>), Hits(<<6, 7>>)}

ScenarioInit == SearchStart({3}, {2})

ScenarioAttempt ==
    \E ddg \in ScenarioAnswers(attempt), tavily \in ScenarioAnswers(attempt) :
        /\ ~ddg.fault => tavily = Fault
        /\ \E ok \in SUBSET (Range(ddg.hrefs \o tavily.hrefs) \ seen_urls) :
              AttemptBody(ddg, tavily, ok)

ScenarioNext == ScenarioAttempt \/ Return

-----------------------------------------------------------------------------
(* sources.py: the context string and the source map of a ranked list, and  *)
(* the retrieval branch of the chat handler that calls it.                  *)
Digits == <<"0", "1", "2", "3", "4", "5", "6", "7", "8", "9">>

\* str(n) of a non-negative int
RECURSIVE Str(_)
Str(n) ==
    IF n < 10 THEN <<Digits[n + 1]>>
    ELSE Str(n \div 10) \o <<Digits[(n % 10) + 1]>>

NewLine == <<"\n">>

OpenTag(idx) ==
    <<"<", "s", "o", "u", "r", "c", "e", "_", "i", "d", "=", "'">> \o Str(idx)
        \o <<"'", ">">>

CloseTag == <<"<", "/", "s", "o", "u", "r", "c", "e", "_", "i", "d", ">">>

\* f"<source_id='{idx}'>\n{chunk}\n</source_id>"
ContextPart(idx, chunk) == OpenTag(idx) \o NewLine \o chunk \o NewLine \o CloseTag

\* sep.join(parts)
RECURSIVE Join(_, _)
Join(sep, parts) ==
    IF parts = <<>> THEN <<>>
    ELSE IF Len(parts) = 1 THEN parts[1]
    ELSE parts[1] \o sep \o Join(sep, Tail(parts))

\* an element of results: the tuple (chunk_content, score, source_url)
Result(chunk, score, source_url) ==
    [chunk |-> chunk, score |-> score, source_url |-> source_url]

\* enumerate(results, 1): the ids start at 1
FirstId == 1

\* variant: the parts are joined in reverse order
format_contextReversed(rs) ==
    IF rs = <<>> THEN <<>>
    ELSE Join(NewLine \o NewLine,
              [i \in 1..Len(rs) |->
                  ContextPart(i - 1 + FirstId, rs[Len(rs) + 1 - i].chunk)])

format_context(rs) ==
    IF rs = <<>> THEN <<>>
    ELSE Join(NewLine \o NewLine,
              [i \in 1..Len(rs) |-> ContextPart(i - 1 + FirstId, rs[i].chunk)])

Ellipsis == <<".", ".", ".">>

\* chunk[:snippet_length] + "..." if len(chunk) > snippet_length else chunk
Snippet(chunk, n) ==
    IF Len(chunk) > n THEN SliceTo(chunk, n) \o Ellipsis ELSE chunk

\* a dict is a function on its keys; {} is the function with no key
build_source_map(rs, n) ==
    [idx \in FirstId..(Len(rs) - 1 + FirstId) |->
        LET r == rs[idx + 1 - FirstId]
        IN  [url |-> r.source_url, score |-> r.score, snippet |-> Snippet(r.chunk, n)]]

EmptyDict == <<>>

\* variant: without the "if not results" guard of process_search_results
\* and of format_context, the context of no result is a lone separator
process_search_resultsNoGuard(rs, n) ==
    [context |-> IF rs = <<>> THEN NewLine \o NewLine ELSE format_context(rs),
     source_map |-> build_source_map(rs, n)]

process_search_results(rs, n) ==
    IF rs = <<>> THEN [context |-> <<>>, source_map |-> EmptyDict]
    ELSE [context |-> format_context(rs), source_map |-> build_source_map(rs, n)]

DefaultSnippetLength == 200

TOP_K == 5

\* the str "" and a (context, source_map) tuple, as values of one variable
EmptyStr == [is_tuple |-> FALSE, context |-> <<>>, source_map |-> EmptyDict]

TupleOf(ret) ==
    [is_tuple |-> TRUE, context |-> ret.context, source_map |-> ret.source_map]

\* bool(v): "" is false, a tuple of two elements is true
IsTrue(v) == v.is_tuple

\* chunk_docs on documents shorter than CHUNK_SIZE: a document is one chunk,
\* a document without text gives no chunk
chunk_docs(docs) == SelectSeq(docs, LAMBDA d : d.page_content # <<>>)

\* search: the chunks in the order of their distance to the query, top_k
\* entries; where the index has fewer vectors the label is -1, and
\* chunks[-1] is the last chunk
search(chunk_list, order, top_k) ==
    [k \in 1..top_k |->
        IF k <= Len(chunk_list)
        THEN Result(chunk_list[order[k]].page_content, k, chunk_list[order[k]].source)
        ELSE Result(chunk_list[Len(chunk_list)].page_content, top_k + 1,
                    chunk_list[Len(chunk_list)].source)]

Perms(n) == {f \in [1..n -> 1..n] : \A i, j \in 1..n : f[i] = f[j] => i = j}

NoPrompt == [kind |-> "none", context |-> EmptyStr]

AssemblyOff ==
    /\ results = <<>>
    /\ snippet_length = 0
    /\ returned = [context |-> <<>>, source_map |-> EmptyDict]
    /\ request_web_search = FALSE
    /\ web_results = <<>>
    /\ web_search_results = EmptyStr
    /\ formatted_prompt = NoPrompt
    /\ conversation = <<>>
    /\ forwarded = <<>>
    /\ a_pc = "off"

AssemblyInit ==
    /\ results = <<>>
    /\ snippet_length = 0
    /\ returned = [context |-> <<>>, source_map |-> EmptyDict]
    /\ request_web_search = FALSE
    /\ web_results = <<>>
    /\ web_search_results = EmptyStr
    /\ formatted_prompt = NoPrompt
    /\ conversation = <<>>
    /\ forwarded = <<>>
    /\ a_pc = "idle"

\* ---- inputs: ranked lists and documents ----
MaxResults == 2

MaxSnippet == 2

MaxDocs == 2

ChunkTexts == {<<"a">>, <<"a", "b", "c">>}

ResultChoices ==
    {Result(c, sc, u) : c \in ChunkTexts, sc \in {0, 1}, u \in {"u", "v"}}

RECURSIVE ListsOf(_, _)
ListsOf(S, n) ==
    IF n = 0 THEN {<<>>}
    ELSE LET shorter == ListsOf(S, n - 1)
         IN  shorter \cup {Append(l, x) : l \in shorter, x \in S}

DocChoices ==
    {[source |-> "u", page_content |-> <<"a">>],
     [source |-> "v", page_content |-> <<"b">>],
     [source |-> "w", page_content |-> <<>>]}

\* ---- the conversation of a chat request ----
MaxMessages == 2

\* Message (utils/schemas.py): role and content
Message(role, content) == [role |-> role, content |-> content]

Undefined == <<"u", "n", "d", "e", "f", "i", "n", "e", "d">>

\* str.lower on the letters that occur
Lower(s) == [i \in DOMAIN s |-> IF s[i] = "U" THEN "u" ELSE s[i]]

\* the characters str.strip and \s take as white space
WhiteSpace == {" ", "\n"}

\* "not content.strip()": no character other than white space
Blank(s) == \A i \in DOMAIN s : s[i] \in WhiteSpace

\* filter_conversation.is_valid_content
is_valid_content(content) ==
    IF content = None THEN FALSE
    ELSE IF Lower(content) = Undefined THEN FALSE
    ELSE IF Blank(content) THEN FALSE
    ELSE TRUE

filter_conversation(msgs) ==
    SelectSeq(msgs, LAMBDA msg : is_valid_content(msg.content))

\* re.sub(r"[^\S\n]+", " ", s): every run of white space other than newline
\* becomes one space
\* (a space is dropped when the character before it is a space; the
\* positions lo..hi are done by halves)
RECURSIVE CollapseRange(_, _, _)
CollapseRange(s, lo, hi) ==
    IF lo > hi THEN <<>>
    ELSE IF lo = hi
    THEN (IF s[lo] = " " /\ lo > 1 /\ s[lo - 1] = " " THEN <<>> ELSE <<s[lo]>>)
    ELSE LET mid == (lo + hi) \div 2
         IN  CollapseRange(s, lo, mid) \o CollapseRange(s, mid + 1, hi)

Collapse(s) == CollapseRange(s, 1, Len(s))

\* the text after {query_text} in base_prompt, cut short: the line break, the
\* indentation and the first word of the instructions
BaseInstructions == <<"\n", " ", " ", "F">>

\* base_prompt(query_text)[0]["content"]
\* variant: the instructions alone, without the query text
base_promptNoQuery(query_text) == Collapse(BaseInstructions)

base_prompt(query_text) == Collapse(query_text \o BaseInstructions)

\* the text of prompt_with_context, cut short: the first word, the context,
\* the line break, the indentation and the question; of the tuple given as
\* context only the context string is written out
prompt_with_context(context, query) ==
    Collapse(<<"Y", " ">> \o context.context \o <<"\n", " ", " ", "Q", " ">>
             \o query)

MessageChoices ==
    {Message("user", <<"a", " ", " ", "b">>),
     Message("assistant", <<"c">>),
     Message("user", <<" ">>),
     Message("assistant", <<"U">> \o Tail(Undefined)),
     Message("user", None)}

\* a call of process_search_results
ProcessSearchResults ==
    /\ a_pc = "idle"
    /\ \E rs \in ListsOf(ResultChoices, MaxResults), n \in 1..MaxSnippet :
          /\ results' = rs
          /\ snippet_length' = n
          /\ returned' = process_search_results(rs, n)
    /\ a_pc' = "returned"
    /\ UNCHANGED <<request_web_search, web_results, web_search_results,
                   formatted_prompt, conversation, forwarded,
                   gvars, svars, rvars, wvars, cvars, pvars>>

\* chat, from filter_conversation to "request.conversation = history +
\* [formatted_message]": msgs is the conversation of the request, docs is
\* what web_search returns if called, order is the ranking of the chunks
ChatAssemble ==
    /\ a_pc = "idle"
    /\ \E msgs \in ListsOf(MessageChoices, MaxMessages) :
          /\ conversation' = msgs
          /\ filter_conversation(msgs) = <<>>
          /\ a_pc' = "no_message"
          /\ UNCHANGED <<results, snippet_length, returned, request_web_search,
                         web_results, web_search_results, formatted_prompt,
                         forwarded>>
       \/ \E flag \in BOOLEAN, docs \in ListsOf(DocChoices, MaxDocs) :
          \E order \in Perms(Len(chunk_docs(docs))) :
          LET filtered == filter_conversation(msgs)
              history == SliceTo(filtered, Len(filtered) - 1)
              current_message == filtered[Len(filtered)]
              chunks_ == chunk_docs(docs)
              ranked == search(chunks_, order, TOP_K)
              ret == process_search_results(ranked, DefaultSnippetLength)
              raised == flag /\ docs # <<>> /\ chunks_ = <<>>
              value == IF flag /\ docs # <<>> THEN TupleOf(ret) ELSE EmptyStr
              content == IF IsTrue(value)
                         THEN prompt_with_context(value, current_message.content)
                         ELSE base_prompt(current_message.content)
          IN  /\ conversation' = msgs
              /\ filtered # <<>>
              /\ request_web_search' = flag
              /\ web_results' = IF flag THEN docs ELSE <<>>
              /\ IF raised
                 THEN /\ a_pc' = "raised"
                      /\ UNCHANGED <<results, snippet_length, returned,
                                     web_search_results, formatted_prompt,
                                     forwarded>>
                 ELSE /\ a_pc' = "assembled"
                      /\ web_search_results' = value
                      /\ formatted_prompt' =
                            IF IsTrue(value)
                            THEN [kind |-> "context", context |-> value]
                            ELSE [kind |-> "base", context |-> EmptyStr]
                      /\ forwarded' = history \o <<Message("user", content)>>
                      /\ IF flag /\ docs # <<>>
                         THEN /\ results' = ranked
                              /\ snippet_length' = DefaultSnippetLength
                              /\ returned' = ret
                         ELSE UNCHANGED <<results, snippet_length, returned>>
    /\ UNCHANGED <<gvars, svars, rvars, wvars, cvars, pvars>>

AssemblyNext == ProcessSearchResults \/ ChatAssemble

-----------------------------------------------------------------------------
(* utils/web_search/scraper.py: fetch_url and scrape_urls.  The tasks of    *)
(* asyncio.gather finish in any order; gather returns their results in the  *)
(* order of the tasks.                                                       *)
MaxFetch == 3

\* ScrapedPage
ScrapedPage(url, title, markdown, success, error) ==
    [url |-> url, title |-> title, markdown |-> markdown, success |-> success,
     error |-> error]

\* the slot of a task that has not finished
NoPage == ScrapedPage(0, None, <<>>, FALSE, "pending")

NoOutcome == [kind |-> "pending", title |-> None, markdown |-> <<>>]

\* what client.get, raise_for_status, the content-type test and
\* html_to_markdown meet for one URL; html_to_markdown returns the markdown
\* stripped
FetchOutcomes ==
    {[kind |-> k, title |-> None, markdown |-> <<>>] :
        k \in {"timeout", "http_error", "not_html", "exception"}}
    \cup {[kind |-> "html", title |-> t, markdown |-> m] :
             t \in {None, <<"t">>}, m \in {<<>>, <<"m">>}}

\* fetch_url: the ScrapedPage for one URL, and whether an exception leaves
\* the coroutine
\* variant: without the final "except Exception" clause
fetch_urlNoCatchAll(url, o) ==
    IF o.kind = "timeout"
    THEN [raised |-> FALSE, page |-> ScrapedPage(url, None, <<>>, FALSE, "Timeout")]
    ELSE IF o.kind = "http_error"
    THEN [raised |-> FALSE, page |-> ScrapedPage(url, None, <<>>, FALSE, "HTTP")]
    ELSE IF o.kind = "exception"
    THEN [raised |-> TRUE, page |-> NoPage]
    ELSE IF o.kind = "not_html"
    THEN [raised |-> FALSE,
          page |-> ScrapedPage(url, None, <<>>, FALSE, "Not HTML content")]
    ELSE IF ~Truthy(o.markdown)
    THEN [raised |-> FALSE,
          page |-> ScrapedPage(url, o.title, <<>>, FALSE,
                               "Empty content after extraction")]
    ELSE [raised |-> FALSE, page |-> ScrapedPage(url, o.title, o.markdown, TRUE, "None")]

fetch_url(url, o) ==
    IF o.kind = "timeout"
    THEN [raised |-> FALSE, page |-> ScrapedPage(url, None, <<>>, FALSE, "Timeout")]
    ELSE IF o.kind = "http_error"
    THEN [raised |-> FALSE, page |-> ScrapedPage(url, None, <<>>, FALSE, "HTTP")]
    ELSE IF o.kind = "exception"
    THEN [raised |-> FALSE, page |-> ScrapedPage(url, None, <<>>, FALSE, "str(e)")]
    ELSE IF o.kind = "not_html"
    THEN [raised |-> FALSE,
          page |-> ScrapedPage(url, None, <<>>, FALSE, "Not HTML content")]
    ELSE IF ~Truthy(o.markdown)
    THEN [raised |-> FALSE,
          page |-> ScrapedPage(url, o.title, <<>>, FALSE,
                               "Empty content after extraction")]
    ELSE [raised |-> FALSE, page |-> ScrapedPage(url, o.title, o.markdown, TRUE, "None")]

\* ScrapedPage.to_document
to_document(page) ==
    [source |-> page.url, title |-> page.title, page_content |-> page.markdown]

\* "successful_pages = [r for r in results if r.success]" and
\* "documents = [page.to_document() for page in successful_pages]"
RECURSIVE DocumentsOf(_)
DocumentsOf(pages) ==
    IF pages = <<>> THEN <<>>
    ELSE (IF pages[1].success THEN <<to_document(pages[1])>> ELSE <<>>)
         \o DocumentsOf(Tail(pages))

\* the lists of distinct URLs scrape_urls is called with
ScrapeInputs ==
    {u \in UNION {[1..n -> 1..MaxFetch] : n \in 0..MaxFetch} :
        \A i, j \in DOMAIN u : i # j => u[i] # u[j]}

ScrapeOff ==
    /\ scrape_input = <<>>
    /\ outcomes = <<>>
    /\ fetch_results = <<>>
    /\ scraped_documents = <<>>
    /\ c_pc = "off"

\* scrape_urls is entered: one task per URL
ScrapeInit ==
    /\ scrape_input \in ScrapeInputs
    /\ outcomes = [i \in DOMAIN scrape_input |-> NoOutcome]
    /\ fetch_results = [i \in DOMAIN scrape_input |-> NoPage]
    /\ scraped_documents = <<>>
    /\ c_pc = "gather"

\* the task of one URL finishes
FetchDone(i) ==
    /\ c_pc = "gather"
    /\ i \in DOMAIN scrape_input
    /\ outcomes[i] = NoOutcome
    /\ \E o \in FetchOutcomes :
          LET r == fetch_url(scrape_input[i], o)
          IN  /\ outcomes' = [outcomes EXCEPT ![i] = o]
              /\ IF r.raised
                 THEN /\ c_pc' = "raised"
                      /\ UNCHANGED fetch_results
                 ELSE /\ fetch_results' = [fetch_results EXCEPT ![i] = r.page]
                      /\ UNCHANGED c_pc
    /\ UNCHANGED <<scrape_input, scraped_documents, gvars, svars, rvars, wvars, avars,
                   pvars>>

\* gather has all results: the failed ones are filtered out and the list of
\* documents is returned
ScrapeReturn ==
    /\ c_pc = "gather"
    /\ \A i \in DOMAIN scrape_input : outcomes[i] # NoOutcome
    /\ scraped_documents' = DocumentsOf(fetch_results)
    /\ c_pc' = "returned"
    /\ UNCHANGED <<scrape_input, outcomes, fetch_results, gvars, svars, rvars, wvars,
                   avars, pvars>>

ScrapeNext == (\E i \in 1..MaxFetch : FetchDone(i)) \/ ScrapeReturn

-----------------------------------------------------------------------------
(* utils/web_search.py: the single-shot pipeline web_search, made of        *)
(* web_search_urls and get_webpage_data.                                     *)

\* DDGS().text(query, max_results=5)
DdgMaxResults == 5

\* ddgs_search on the hits DuckDuckGo answers with
ddgs_search(hrefs) == Take(hrefs, Min(DdgMaxResults, Len(hrefs)))

\* tavily_search on the results Tavily answers with
tavily_search(hrefs) == hrefs

\* web_search_urls: the URL list, the number of calls of tavily_search, and
\* whether an exception leaves the function
web_search_urls(ddg, tavily) ==
    LET first == Try(ddg, ddgs_search(ddg.hrefs))
        asked == first.urls = <<>>
        second == IF asked THEN Try(tavily, tavily_search(tavily.hrefs))
                  ELSE [urls |-> <<>>, raised |-> FALSE]
    IN  [urls |-> IF asked THEN second.urls ELSE first.urls,
         tavily_calls |-> IF asked THEN 1 ELSE 0,
         raised |-> first.raised \/ second.raised]

\* result.markdown of a page the crawler could not load
NoMarkdown == None

\* Document(metadata={"source": result.url}, page_content=...)
Document(url, markdown) == [source |-> url, page_content |-> markdown]

\* the crawler was not run
NoCrawl == [fault |-> FALSE, markdown |-> <<>>]

\* what the crawler does on urls: arun_many raises, or gives one result per
\* URL, whose markdown is a text (maybe empty) or is missing
CrawlOutcomes(urls) ==
    {[fault |-> TRUE, markdown |-> <<>>]}
    \cup {[fault |-> FALSE, markdown |-> m] :
             m \in [1..Len(urls) -> {NoMarkdown, <<>>, <<"m">>}]}

\* the for loop of get_webpage_data from result i on: result.markdown
\* .fit_markdown raises on a missing markdown, which ends the loop
RECURSIVE DocsUpToFault(_, _, _)
DocsUpToFault(urls, markdown, i) ==
    IF i > Len(urls) THEN [docs |-> <<>>, fault |-> FALSE]
    ELSE IF markdown[i] = NoMarkdown THEN [docs |-> <<>>, fault |-> TRUE]
    ELSE LET rest == DocsUpToFault(urls, markdown, i + 1)
         IN  [docs |-> <<Document(urls[i], markdown[i])>> \o rest.docs,
              fault |-> rest.fault]

\* get_webpage_data: "finally: return docs" ends every path of the try
\* statement with the documents appended so far
\* variant: without the except and finally clauses
get_webpage_dataUncaught(urls, crawl) ==
    IF urls = <<>> THEN [docs |-> <<>>, raised |-> FALSE]
    ELSE IF crawl.fault THEN [docs |-> <<>>, raised |-> TRUE]
    ELSE [docs |-> DocsUpToFault(urls, crawl.markdown, 1).docs,
          raised |-> DocsUpToFault(urls, crawl.markdown, 1).fault]

get_webpage_data(urls, crawl) ==
    IF urls = <<>> THEN [docs |-> <<>>, raised |-> FALSE]
    ELSE IF crawl.fault THEN [docs |-> <<>>, raised |-> FALSE]
    ELSE [docs |-> DocsUpToFault(urls, crawl.markdown, 1).docs, raised |-> FALSE]

PipelineOff ==
    /\ p_ddg = Fault
    /\ p_tavily = Fault
    /\ p_tavily_calls = 0
    /\ search_results = <<>>
    /\ p_crawl = NoCrawl
    /\ p_docs = <<>>
    /\ p_pc = "off"

\* web_search is called
PipelineInit ==
    /\ p_ddg = Fault
    /\ p_tavily = Fault
    /\ p_tavily_calls = 0
    /\ search_results = <<>>
    /\ p_crawl = NoCrawl
    /\ p_docs = <<>>
    /\ p_pc = "search"

\* search_results = web_search_urls(user_query, ...)
WebSearchUrls ==
    /\ p_pc = "search"
    /\ \E ddg \in ProviderAnswers, tavily \in ProviderAnswers :
          LET r == web_search_urls(ddg, tavily)
          IN  /\ (~ddg.fault /\ ddg.hrefs # <<>>) => tavily = Fault
              /\ p_ddg' = ddg
              /\ p_tavily' = tavily
              /\ p_tavily_calls' = r.tavily_calls
              /\ search_results' = r.urls
              /\ p_pc' = IF r.raised THEN "raised" ELSE "crawl"
    /\ UNCHANGED <<p_crawl, p_docs, gvars, svars, rvars, wvars, avars, cvars>>

\* docs = await get_webpage_data(search_results), "if not docs: docs = []"
\* and the return
GetWebpageData ==
    /\ p_pc = "crawl"
    /\ \E crawl \in CrawlOutcomes(search_results) :
          LET r == get_webpage_data(search_results, crawl)
          IN  /\ p_crawl' = (IF search_results = <<>> THEN NoCrawl ELSE crawl)
              /\ p_docs' = (IF r.raised \/ r.docs = <<>> THEN <<>> ELSE r.docs)
              /\ p_pc' = IF r.raised THEN "raised" ELSE "returned"
    /\ UNCHANGED <<p_ddg, p_tavily, p_tavily_calls, search_results,
                   gvars, svars, rvars, wvars, avars, cvars>>

PipelineNext == WebSearchUrls \/ GetWebpageData

-----------------------------------------------------------------------------
InitPipeline == PipelineInit /\ GroqOff /\ StreamOff /\ ServerOff /\ SearchOff /\ AssemblyOff /\ ScrapeOff

SpecPipeline == InitPipeline /\ [][PipelineNext]_vars

InitScrape == ScrapeInit /\ GroqOff /\ StreamOff /\ ServerOff /\ SearchOff /\ AssemblyOff /\ PipelineOff

SpecScrape == InitScrape /\ [][ScrapeNext]_vars

InitGroq == GroqInit /\ StreamOff /\ ServerOff /\ SearchOff /\ AssemblyOff /\ ScrapeOff /\ PipelineOff

SpecGroq == InitGroq /\ [][GroqNext]_vars

InitAssembly == AssemblyInit /\ GroqOff /\ StreamOff /\ ServerOff /\ SearchOff /\ ScrapeOff /\ PipelineOff

SpecAssembly == InitAssembly /\ [][AssemblyNext]_vars

InitGroqStream == GroqStreamInit /\ StreamOff /\ ServerOff /\ SearchOff /\ AssemblyOff /\ ScrapeOff /\ PipelineOff

SpecGroqStream == InitGroqStream /\ [][GroqStreamNext]_vars

InitStream == StreamInit /\ GroqOff /\ ServerOff /\ SearchOff /\ AssemblyOff /\ ScrapeOff /\ PipelineOff

SpecStream == InitStream /\ [][StreamNext]_vars

InitServer == ServerInit /\ GroqOff /\ StreamOff /\ SearchOff /\ AssemblyOff /\ ScrapeOff /\ PipelineOff

SpecServer == InitServer /\ [][ServerNext]_vars

InitSearch == SearchInit /\ GroqOff /\ StreamOff /\ ServerOff /\ AssemblyOff /\ ScrapeOff /\ PipelineOff

SpecSearch == InitSearch /\ [][SearchNext]_vars

InitScenario == ScenarioInit /\ GroqOff /\ StreamOff /\ ServerOff /\ AssemblyOff /\ ScrapeOff /\ PipelineOff

SpecScenario == InitScenario /\ [][ScenarioNext]_vars

\* a response's background tasks are awaited once its body has been sent
FairSpecServer == SpecServer /\ \A r \in Requests : WF_vars(Cleanup(r))

-----------------------------------------------------------------------------
(* What a client reconstructs from a chunk sequence.                        *)
RECURSIVE ConcatContent(_)
ConcatContent(chs) ==
    IF chs = <<>> THEN <<>> ELSE chs[1][1] \o ConcatContent(Tail(chs))

RECURSIVE ConcatThinking(_)
ConcatThinking(chs) ==
    IF chs = <<>> THEN <<>>
    ELSE (IF chs[1][2] = None THEN <<>> ELSE chs[1][2]) \o ConcatThinking(Tail(chs))

\* the chunks groq_chunks yields for the text sent as one single delta
Unsplit(t) == GroqDeltaResult(t, None, FALSE).yields

\* C1: for every text and every way of cutting it into deltas (none with a
\* reasoning field), the concatenated content and the concatenated reasoning
\* of the yielded chunks equal those of the same text sent as one delta.
C1_SplitInvariant ==
    (g_pc = "done" /\ ~field_used) =>
        /\ ConcatContent(chunks) = ConcatContent(Unsplit(text))
        /\ ConcatThinking(chunks) = ConcatThinking(Unsplit(text))

-----------------------------------------------------------------------------
(* stream_response: the events of a run.                                    *)
DataEvents == {i \in 1..Len(events) : "content" \in DOMAIN events[i]}

SourceEvents == {i \in 1..Len(events) : "sources" \in DOMAIN events[i]}

ErrorEvents == {i \in 1..Len(events) : "error" \in DOMAIN events[i]}

FirstOf(S) == CHOOSE i \in S : \A j \in S : i <= j

\* C2: once the cancellation flag reads true, no further event of any kind
\* is produced, whatever the chunk iterator does next.
C2_NoEventAfterCancel ==
    [][state_cancelled => events' = events]_vars

\* C3 as stated: every finished run that was given a non-empty source map has
\* exactly one event carrying it, the first event with content or reasoning.
C3_ExactlyOneSourceEvent ==
    (s_pc = "done" /\ Truthy(sources)) =>
        /\ Cardinality(SourceEvents) = 1
        /\ SourceEvents \subseteq DataEvents
        /\ \A i \in SourceEvents : \A j \in DataEvents : i <= j

\* C3 as amended: with a non-empty source map, the events carrying it are
\* exactly: the first data event if the run has emitted one, none otherwise;
\* that event carries the map it was given and every data event has non-empty
\* content or reasoning.
C3_SourcesOnFirstDataEventOnly ==
    Truthy(sources) =>
        /\ SourceEvents = (IF DataEvents = {} THEN {} ELSE {FirstOf(DataEvents)})
        /\ \A i \in SourceEvents : events[i].sources = sources
        /\ \A i \in DataEvents :
              \/ Truthy(events[i].content)
              \/ ("thinking" \in DOMAIN events[i] /\ Truthy(events[i].thinking))

\* a run with a source map that has emitted two data events
C3_TwoDataEventsReached ==
    /\ Truthy(sources)
    /\ Cardinality(DataEvents) >= 2
    /\ 1 \in SourceEvents

\* C7: a fault of the iterator makes stream_response yield exactly one event,
\* holding only an error description, and finish without raising; after the
\* fault nothing is emitted and the iterator is not pulled again; the events
\* emitted before the fault stay as they were.
C7_FaultOneTerminalError ==
    [][/\ (it_state = "live" /\ it_state' = "raised") =>
            /\ Len(events') = Len(events) + 1
            /\ SubSeq(events', 1, Len(events)) = events
            /\ DOMAIN events'[Len(events')] = {"error"}
            /\ s_pc' = "done"
       /\ it_state = "raised" =>
            (events' = events /\ pulls' = pulls /\ s_pc' = s_pc)
       /\ s_pc = "done" => (events' = events /\ pulls' = pulls /\ s_pc' = "done")
      ]_vars

\* a fault after two emitted events has been turned into the error event
C7_FaultAfterEventsReached ==
    /\ it_state = "raised"
    /\ s_pc = "done"
    /\ Len(events) = 3
    /\ ErrorEvents = {3}

-----------------------------------------------------------------------------
(* server.py: the claims about the active-request set.                      *)

\* C4: after the streaming response of a request has ended (by completion,
\* cancellation or a provider fault) its cleanup task runs, and once it has
\* run the request's id is absent from the active-request set.
C4_AbsentAfterStream ==
    \A r \in Requests :
        /\ [](phase[r] = "closed" => r \notin active_requests)
        /\ (phase[r] = "ended") ~> (phase[r] = "closed" /\ r \notin active_requests)

\* one request ended by cancellation and one by a fault, both cleaned up while
\* the process is still up
C4_CancelAndFaultCleanedReached ==
    /\ lifespan_pc # "stopped"
    /\ \E r1, r2 \in Requests :
          /\ phase[r1] = "closed" /\ end_cause[r1] = "cancel"
          /\ phase[r2] = "closed" /\ end_cause[r2] = "fault"
    /\ active_requests = {}

\* C5: on every exit path of the chat handler the id that was added is going
\* to be removed: every id in the active-request set has a cleanup task that
\* is still to run.
C5_EveryActiveIdHasCleanup ==
    \A r \in active_requests : cleanup_pending[r]

\* C6: the cleanup task raises no error, also when the id is already absent
\* from the set.
C6_CleanupNeverRaises ==
    \A r \in Requests : ~cleanup_error[r]

-----------------------------------------------------------------------------
(* search_and_scrape: the claims about the returned list.                   *)

\* the number of scrapes that succeeded in the call, over all its attempts
RECURSIVE ScrapeSuccesses(_)
ScrapeSuccesses(log) ==
    IF log = <<>> THEN 0
    ELSE Cardinality(log[Len(log)].ok) + ScrapeSuccesses(SubSeq(log, 1, Len(log) - 1))

\* every URL handed to the scraper in the call, in the order it was handed
RECURSIVE ScrapedUrls(_)
ScrapedUrls(log) ==
    IF log = <<>> THEN <<>>
    ELSE ScrapedUrls(SubSeq(log, 1, Len(log) - 1)) \o log[Len(log)].new_urls

\* C8: the returned list has at most target_count documents, and exactly
\* target_count when at least target_count scrapes succeeded in the call.
C8_ResultLength ==
    ss_pc = "done" =>
        /\ Len(result) <= target_count
        /\ Len(attempts_log) <= max_attempts
        /\ ScrapeSuccesses(attempts_log) >= target_count => Len(result) = target_count

\* a call in which more scrapes succeeded than were asked for
C8_TrimmedReached ==
    /\ ss_pc = "done"
    /\ ScrapeSuccesses(attempts_log) > target_count
    /\ Len(result) = target_count

\* C9: no URL is handed to the scraper twice in one call, neither within
\* an attempt nor in two attempts, whatever the outcome of its scrape.
C9_NoUrlScrapedTwice ==
    LET scraped == ScrapedUrls(attempts_log)
    IN  \A i, j \in 1..Len(scraped) : scraped[i] = scraped[j] => i = j

\* a second attempt whose provider answered with a URL that was scraped
\* without success in the first attempt, and with a new one
C9_SeenUrlFilteredReached ==
    /\ Len(attempts_log) = 2
    /\ attempts_log[2].new_urls # <<>>
    /\ \E u \in Range(last_attempt.urls) :
          /\ u \in Range(attempts_log[1].new_urls)
          /\ u \notin attempts_log[1].ok

\* the scenario of C10: target_count 3, max_attempts 2, the first attempt
\* finds 5 URLs of which 2 are scraped with success, the second finds 4 new
\* URLs of which 2 are scraped with success
C10_Scenario ==
    /\ ss_pc = "done"
    /\ target_count = 3
    /\ max_attempts = 2
    /\ Len(attempts_log) = 2
    /\ Len(attempts_log[1].new_urls) = 5
    /\ Cardinality(attempts_log[1].ok) = 2
    /\ Len(attempts_log[2].new_urls) = 4
    /\ Cardinality(attempts_log[2].ok) = 2

\* C10: in that scenario the returned list holds 3 documents: the 2 of the
\* first attempt, in the order of its URLs, then the first successful one of
\* the second attempt.
C10_FirstTargetCountInOrder ==
    C10_Scenario =>
        LET first == attempts_log[1]
            second == attempts_log[2]
            s1 == {i \in 1..5 : first.new_urls[i] \in first.ok}
            s2 == {i \in 1..4 : second.new_urls[i] \in second.ok}
            a == CHOOSE i \in s1 : \A j \in s1 : i <= j
            b == CHOOSE i \in s1 : \A j \in s1 : i >= j
            c == CHOOSE i \in s2 : \A j \in s2 : i <= j
        IN  result = <<first.new_urls[a], first.new_urls[b], second.new_urls[c]>>

\* the scenario, with URLs of the first attempt offered again in the second
C10_ScenarioReached ==
    /\ C10_Scenario
    /\ Len(last_attempt.urls) > 4
    /\ Len(successful_documents) = 4

-----------------------------------------------------------------------------
(* The two search providers of an attempt.                                  *)

\* C11: in every attempt in which DuckDuckGo raises and Tavily answers, the
\* attempt goes on with exactly the URLs Tavily answered with (those of them
\* not seen before are what is handed on), and no error leaves the call.
C11_FallbackUrls ==
    [][(attempt' = attempt + 1 /\ last_attempt'.ddg_fault
            /\ ~last_attempt'.tavily_fault) =>
          /\ ss_pc' # "raised"
          /\ last_attempt'.urls = last_attempt'.tavily_answer
          /\ Len(attempts_log') = Len(attempts_log) + 1
          /\ attempts_log'[Len(attempts_log')].new_urls =
                FilterSeen(last_attempt'.tavily_answer, seen_urls)]_vars

\* a call whose only attempt saw DuckDuckGo raise and Tavily answer with
\* two URLs, both scraped with success and returned
C11_FallbackOnlyReached ==
    /\ ss_pc = "done"
    /\ attempt = 1
    /\ last_attempt.ddg_fault
    /\ ~last_attempt.tavily_fault
    /\ Len(last_attempt.tavily_answer) = 2
    /\ result = last_attempt.tavily_answer

-----------------------------------------------------------------------------
(* The bound of the retry loop.                                             *)

\* one of the three reasons to leave the loop holds: enough documents, all
\* attempts used, or the latest attempt found no new URL
StopReason ==
    \/ Len(successful_documents) >= target_count
    \/ attempt = max_attempts
    \/ /\ attempts_log # <<>>
       /\ attempts_log[Len(attempts_log)].new_urls = <<>>

\* what is left to do: the attempts not yet made, and the return
StepsLeft == 2 * (max_attempts - attempt) + (IF ss_pc = "done" THEN 0 ELSE 1)

\* C17: the call returns, after at most max_attempts attempts (a step is
\* possible as long as it has not returned, and every step lowers
\* StepsLeft, which is never negative); a further attempt is made only while
\* none of the three reasons to stop holds, and the loop is left only when
\* one of them holds.
C17_BoundedLoop ==
    /\ [](attempt <= max_attempts)
    /\ [](ss_pc # "done" => ENABLED SearchNext)
    /\ [][StepsLeft' < StepsLeft]_vars
    /\ [][attempt' = attempt + 1 => ~StopReason]_vars
    /\ [][ss_pc' = "done" => StopReason]_vars

\* a call that used all its attempts, each with new URLs, and still has
\* fewer documents than asked for
C17_AttemptsUsedUpReached ==
    /\ ss_pc = "done"
    /\ max_attempts = 2
    /\ attempt = max_attempts
    /\ Len(successful_documents) < target_count
    /\ attempts_log[2].new_urls # <<>>

-----------------------------------------------------------------------------
(* When Tavily is asked.                                                    *)

\* C18: Tavily is asked in an attempt only when DuckDuckGo raised a fault in
\* that attempt.
C18_TavilyOnlyOnFault ==
    last_attempt.tavily_asked => last_attempt.ddg_fault

\* C18, amended: Tavily is asked in an attempt exactly when DuckDuckGo gave
\* no URL in that attempt, be it by raising a fault or by answering with an
\* empty list.
C18_TavilyWhenNoUrls ==
    last_attempt.tavily_asked <=> (last_attempt.ddg_fault \/ last_attempt.ddg_empty)

\* an attempt in which DuckDuckGo answered, with no URL, and the URLs of
\* Tavily were scraped
C18_FallbackOnEmptyReached ==
    /\ attempt > 0
    /\ last_attempt.ddg_empty
    /\ ~last_attempt.ddg_fault
    /\ last_attempt.tavily_asked
    /\ last_attempt.scraped

-----------------------------------------------------------------------------
(* The query text of an attempt.                                            *)

\* C19: in every attempt the query sent to the providers is the caller's
\* query with the exclusion string appended exactly once, the same text in
\* every attempt.
C19_ExclusionsOnce ==
    attempt > 0 => last_attempt.exclusions = 1

-----------------------------------------------------------------------------
(* An attempt in which both providers fail.                                 *)

\* C20: an attempt in which DuckDuckGo and Tavily both raise has no URLs,
\* lets no error out and scrapes nothing; the call then returns the
\* documents gathered before that attempt, none if it was the first.
C20_BothProvidersFail ==
    /\ [][(attempt' = attempt + 1 /\ last_attempt'.ddg_fault
              /\ last_attempt'.tavily_fault) =>
            /\ ss_pc' = "break"
            /\ last_attempt'.urls = <<>>
            /\ ~last_attempt'.scraped
            /\ successful_documents' = successful_documents]_vars
    /\ []((ss_pc = "done" /\ last_attempt.ddg_fault /\ last_attempt.tavily_fault) =>
            /\ result = successful_documents
            /\ attempt = 1 => result = <<>>)

\* a call whose first attempt gathered a document and whose second attempt
\* saw both providers fail
C20_FailAfterProgressReached ==
    /\ ss_pc = "done"
    /\ attempt = 2
    /\ last_attempt.ddg_fault
    /\ last_attempt.tavily_fault
    /\ result # <<>>

-----------------------------------------------------------------------------
(* The parser on streams of whole deltas.                                   *)
NoField(c) == [content |-> c, reasoning |-> None]

\* C12: for the deltas "<think>", "partial", "</think>", "answer", none with
\* a reasoning field, groq_chunks yields exactly two chunks, in this order:
\* ("", "partial") and ("answer", None); the two deltas that are a marker
\* and nothing else yield no chunk.
C12_ThinkThenAnswer ==
    /\ deltas = <<NoField(ThinkStart)>> => chunks = <<>>
    /\ deltas = <<NoField(ThinkStart), NoField(Partial)>> =>
          chunks = << <<(<<>>), Partial>> >>
    /\ deltas = <<NoField(ThinkStart), NoField(Partial), NoField(ThinkEnd)>> =>
          chunks = << <<(<<>>), Partial>> >>
    /\ deltas = <<NoField(ThinkStart), NoField(Partial), NoField(ThinkEnd),
                  NoField(Answer)>> =>
          chunks = << <<(<<>>), Partial>>, <<Answer, None>> >>

\* the stream of the four deltas has been read to its end
C12_FourDeltasReached ==
    /\ g_pc = "done"
    /\ deltas = <<NoField(ThinkStart), NoField(Partial), NoField(ThinkEnd),
                  NoField(Answer)>>
    /\ Len(chunks) = 2


\* C13: as long as no delta carried a reasoning field and the text received
\* holds no marker, every chunk yielded has content and no reasoning (None
\* or empty), and the parser is not inside a think block.
C13_PlainTextContentOnly ==
    (~field_used /\ Find(text, ThinkStart) = -1 /\ Find(text, ThinkEnd) = -1) =>
        /\ ~in_think_block
        /\ \A i \in 1..Len(chunks) :
              /\ chunks[i][2] \in {None, <<>>}
              /\ chunks[i][1] # <<>>

\* a stream of three marker-free deltas, one of them empty, read to its end
C13_PlainStreamReached ==
    /\ g_pc = "done"
    /\ ~field_used
    /\ deltas = <<NoField(Answer), NoField(<<>>), NoField(Partial)>>
    /\ chunks = << <<Answer, None>>, <<Partial, None>> >>

-----------------------------------------------------------------------------
(* The context string and the source map.                                   *)

\* the number of places where m occurs in s
Occurrences(s, m) ==
    Cardinality({i \in 0..(Len(s) - Len(m)) : SubSeq(s, i + 1, i + Len(m)) = m})

TagStart == <<"<", "s", "o", "u", "r", "c", "e", "_", "i", "d", "=">>

\* C14: for a non-empty ranked list of K results the keys of the source map
\* are exactly 1..K and key i holds the url, the score and a snippet of the
\* text of result i; the context string holds K citation tags, in rank
\* order, the i-th one with id i around the text of result i.
C14_IdsFollowRank ==
    (a_pc \in {"returned", "assembled"} /\ results # <<>>) =>
        LET K == Len(results)
            context == returned.context
            at(i) == Find(context, OpenTag(i) \o NewLine \o results[i].chunk
                                       \o NewLine \o CloseTag)
        IN  /\ DOMAIN returned.source_map = 1..K
            /\ \A i \in 1..K :
                  LET entry == returned.source_map[i]
                      m == Min(Len(results[i].chunk), snippet_length)
                  IN  /\ entry.url = results[i].source_url
                      /\ entry.score = results[i].score
                      /\ Take(entry.snippet, m) = Take(results[i].chunk, m)
                      /\ at(i) # -1
            /\ at(1) = 0
            /\ \A i \in 1..(K - 1) : at(i) < at(i + 1)
            /\ Occurrences(context, TagStart) = K

\* a call with two results of different texts and urls, the longer text
\* first and cut in its snippet
C14_TwoResultsReached ==
    /\ a_pc = "returned"
    /\ Len(results) = 2
    /\ results[1].chunk = <<"a", "b", "c">>
    /\ results[2].chunk = <<"a">>
    /\ results[1].source_url # results[2].source_url
    /\ returned.source_map[1].snippet = <<"a", "b", ".", ".", ".">>

\* C15: process_search_results on an empty list returns ("", {}); when
\* retrieval gives the chat handler no document, the handler raises nothing
\* and goes on with no context and no source map, to the prompt without
\* context.
C15_EmptyRetrieval ==
    /\ (a_pc = "returned" /\ results = <<>>) =>
          /\ returned.context = <<>>
          /\ returned.source_map = EmptyDict
    /\ (a_pc \in {"assembled", "raised"} /\ web_results = <<>>) =>
          /\ a_pc = "assembled"
          /\ web_search_results = EmptyStr
          /\ formatted_prompt = [kind |-> "base", context |-> EmptyStr]

\* a chat with web search whose retrieval gave no document
C15_NoDocumentsReached ==
    /\ a_pc = "assembled"
    /\ request_web_search
    /\ web_results = <<>>
    /\ formatted_prompt.kind = "base"

-----------------------------------------------------------------------------
(* server.py: dispatch on the provider.                                     *)

\* C16: a request whose provider is not one of the supported ones is
\* rejected when it is dispatched, with the HTTPException of
\* handle_chat_request: no SSE event is ever sent for it and no provider's
\* chunk generator is ever started for it.
C16_UnsupportedRejected ==
    \A r \in Requests :
        (provider[r] # "none" /\ provider[r] \notin Providers) =>
            /\ phase[r] = "failed"
            /\ end_cause[r] = "HTTPException"
            /\ ~events_sent[r]
            /\ ~provider_called[r]

\* a request for an unsupported provider has been rejected, while a request
\* for a supported one has streamed events and ended
C16_RejectedBesideStreamReached ==
    \E r1, r2 \in Requests :
        /\ provider[r1] = "mistral"
        /\ phase[r1] = "failed"
        /\ provider[r2] \in Providers
        /\ phase[r2] = "closed"
        /\ events_sent[r2]
        /\ provider_called[r2]

-----------------------------------------------------------------------------
(* An attempt without a new URL.                                            *)

\* the latest attempt found no URL that was not seen before
NoNewUrls == attempts_log # <<>> /\ attempts_log[Len(attempts_log)].new_urls = <<>>

\* C21: an attempt all of whose URLs were seen before scrapes nothing and
\* leaves successful_documents and seen_urls as they were; after it the call
\* makes no further attempt (no provider is asked, nothing is scraped): its
\* only step is the return.
C21_StopOnNoNewUrls ==
    /\ [][(attempt' = attempt + 1 /\ NoNewUrls') =>
            /\ ss_pc' = "break"
            /\ ~last_attempt'.scraped
            /\ successful_documents' = successful_documents
            /\ seen_urls' = seen_urls]_vars
    /\ [][NoNewUrls =>
            /\ attempt' = attempt
            /\ attempts_log' = attempts_log
            /\ last_attempt' = last_attempt
            /\ successful_documents' = successful_documents
            /\ ss_pc' = "done"]_vars

\* a second attempt whose provider answered with URLs, all of them seen in
\* the first attempt, while documents were still missing
C21_AllSeenReached ==
    /\ ss_pc = "break"
    /\ attempt = 2
    /\ last_attempt.urls # <<>>
    /\ NoNewUrls
    /\ Len(successful_documents) < target_count

-----------------------------------------------------------------------------
(* The number of URLs asked for.                                            *)
RECURSIVE SumFetchCounts(_)
SumFetchCounts(log) ==
    IF log = <<>> THEN 0
    ELSE log[Len(log)].fetch_count + SumFetchCounts(SubSeq(log, 1, Len(log) - 1))

\* C22: the fetch_count of attempt i is target_count minus the number of
\* documents gathered before it, plus 5, plus the sum of the fetch_counts of
\* the attempts before it (0 for the first); it is the number given to the
\* provider, and it grows strictly from one attempt to the next.
C22_FetchCount ==
    /\ \A i \in 1..Len(attempts_log) :
          LET before == SubSeq(attempts_log, 1, i - 1)
          IN  attempts_log[i].fetch_count =
                 (target_count - ScrapeSuccesses(before)) + 5 + SumFetchCounts(before)
    /\ \A i \in 1..(Len(attempts_log) - 1) :
          attempts_log[i].fetch_count < attempts_log[i + 1].fetch_count
    /\ attempts_log # <<>> =>
          last_attempt.fetch_count = attempts_log[Len(attempts_log)].fetch_count

\* a second attempt made after a first one that gathered a document
C22_SecondAttemptReached ==
    /\ Len(attempts_log) = 2
    /\ target_count = 2
    /\ Cardinality(attempts_log[1].ok) = 1
    /\ attempts_log[1].fetch_count = 7
    /\ attempts_log[2].fetch_count = 13

-----------------------------------------------------------------------------
(* The order of content and reasoning within a delta.                       *)

\* the pieces of a delta's content in the order they arrive: the text
\* outside and inside think blocks, markers left out
RECURSIVE Segments(_, _)
Segments(s, in_think) ==
    IF s = <<>> THEN <<>>
    ELSE LET marker == IF in_think THEN ThinkEnd ELSE ThinkStart
             at == Find(s, marker)
         IN  IF at = -1 THEN <<[think |-> in_think, text |-> s]>>
             ELSE (IF at > 0 THEN <<[think |-> in_think, text |-> Take(s, at)]>>
                   ELSE <<>>)
                  \o Segments(Drop(s, at + Len(marker)), ~in_think)

\* the chunk holds content that arrived before and content that arrived
\* after reasoning it holds as well
CarriesBothSides(chunk, segs) ==
    \E i, j, k \in 1..Len(segs) :
        /\ i < j /\ j < k
        /\ ~segs[i].think /\ segs[j].think /\ ~segs[k].think
        /\ chunk[2] # None
        /\ Find(chunk[2], segs[j].text) # -1
        /\ Find(chunk[1], segs[i].text) # -1
        /\ Find(chunk[1], segs[k].text) # -1

\* C23: no chunk yielded for a delta holds content from before and from
\* after the reasoning it holds; for the one delta a<think>r</think>b the
\* chunks are content a, then reasoning r, then content b.
C23_ArrivalOrder ==
    [][deltas' # deltas =>
          LET d == deltas'[Len(deltas')]
              segs == Segments(d.content, in_think_block)
              new == SubSeq(chunks', Len(chunks) + 1, Len(chunks'))
          IN  d.reasoning = None =>
                 /\ \A c \in 1..Len(new) : ~CarriesBothSides(new[c], segs)
                 /\ (deltas = <<>> /\ d.content = Enclosed) =>
                        new = << <<(<<"a">>), None>>, <<(<<>>), <<"r">> >>,
                                 <<(<<"b">>), None>> >>]_vars

-----------------------------------------------------------------------------
(* server.py: concurrent chat requests and the active-request set.          *)

\* the requests that have begun (their id was added) and whose cleanup has
\* not run
BegunNotCleaned ==
    {r \in Requests : phase[r] \in {"preparing", "streaming", "ended", "failed"}}

-----------------------------------------------------------------------------
(* groq_chunks: deltas with a reasoning field.                              *)

\* the chunks yielded for the delta handled by the step
NewChunks == SubSeq(chunks', Len(chunks) + 1, Len(chunks'))

\* C25: a delta with a non-empty reasoning field yields the reasoning as a
\* chunk of its own with empty content, then its content, when non-empty and
\* exactly as it arrived (markers included), as a second chunk without
\* reasoning; the inside-block state is left as it was.
C25_ReasoningFieldDelta ==
    [][deltas' # deltas =>
          LET d == deltas'[Len(deltas')]
          IN  Truthy(d.reasoning) =>
                 /\ NewChunks = <<<<(<<>>), d.reasoning>>>>
                                \o (IF d.content # <<>>
                                    THEN <<<<d.content, None>>>> ELSE <<>>)
                 /\ in_think_block' = in_think_block]_vars

\* inside an open think block a delta with a reasoning field and the closing
\* marker as content was handled: the marker is passed on as content and the
\* block is still open
C25_MarkerPassedOnReached ==
    /\ deltas = <<NoField(ThinkStart), [content |-> ThinkEnd, reasoning |-> <<"r">>]>>
    /\ chunks = << <<(<<>>), <<"r">> >>, <<ThinkEnd, None>> >>
    /\ in_think_block

-----------------------------------------------------------------------------
(* groq_chunks: no empty chunk.                                             *)

-----------------------------------------------------------------------------
(* stream_response: one event per non-empty chunk.                          *)

\* what an event says about its chunk: the keys other than "sources"
EventOf(chunk) ==
    IF chunk.thinking # None
    THEN [content |-> chunk.content, model |-> ModelName, thinking |-> chunk.thinking]
    ELSE [content |-> chunk.content, model |-> ModelName]

WithoutSources(e) ==
    IF "thinking" \in DOMAIN e
    THEN [content |-> e.content, model |-> e.model, thinking |-> e.thinking]
    ELSE [content |-> e.content, model |-> e.model]

\* the events for the chunks with non-empty content or non-empty reasoning,
\* in the order of the chunks
RECURSIVE EventsFor(_)
EventsFor(cs) ==
    IF cs = <<>> THEN <<>>
    ELSE (IF Truthy(cs[1].content) \/ Truthy(cs[1].thinking)
          THEN <<EventOf(cs[1])>> ELSE <<>>)
         \o EventsFor(Tail(cs))

\* C27: while the request is not cancelled and the iterator has not raised,
\* the events emitted are exactly one per pulled chunk with non-empty
\* content or reasoning, in the order of the iterator, each with the content,
\* the reasoning and the model name of its chunk; a chunk with both empty
\* has no event.
C27_OneEventPerChunk ==
    (s_pc # "off" /\ ~state_cancelled /\ it_state # "raised") =>
        /\ Len(events) = Len(EventsFor(pulled))
        /\ \A i \in 1..Len(events) :
              /\ "error" \notin DOMAIN events[i]
              /\ WithoutSources(events[i]) = EventsFor(pulled)[i]

\* three chunks were pulled: a plain string, an empty tuple and a tuple with
\* reasoning only; two events were emitted
C27_EmptyChunkSkippedReached ==
    /\ ~state_cancelled /\ it_state = "exhausted"
    /\ pulled = <<StrChunk(<<"x">>), TupleChunk(<<>>, <<>>), TupleChunk(<<>>, <<"t">>)>>
    /\ Len(events) = 2

-----------------------------------------------------------------------------
(* scrape_urls: what is returned.                                           *)

\* the fetch at position i succeeded and the markdown extracted is not empty
FetchedWithContent(i) ==
    outcomes[i].kind = "html" /\ outcomes[i].markdown # <<>>

\* the documents of the positions from i on at which the fetch succeeded
\* with non-empty markdown, in the order of the positions
RECURSIVE ExpectedDocuments(_)
ExpectedDocuments(i) ==
    IF i > Len(scrape_input) THEN <<>>
    ELSE (IF FetchedWithContent(i)
          THEN <<[source |-> scrape_input[i], title |-> outcomes[i].title,
                  page_content |-> outcomes[i].markdown]>>
          ELSE <<>>)
         \o ExpectedDocuments(i + 1)

\* C28: scrape_urls returns exactly the documents of the URLs whose fetch
\* succeeded with non-empty extracted markdown, in the order of its input,
\* whatever order the fetches finished in; a fault of one URL (timeout, HTTP
\* error, non-HTML response, empty content, any other exception) drops that
\* URL only and is not raised: the call returns once every fetch has
\* finished.
C28_ScrapeReturnsFetched ==
    /\ c_pc # "raised"
    /\ c_pc = "returned" => scraped_documents = ExpectedDocuments(1)
    /\ (c_pc = "gather" /\ \A i \in DOMAIN scrape_input : outcomes[i] # NoOutcome)
          => ENABLED ScrapeReturn

\* three URLs: the first met an exception, the others were fetched; the two
\* documents are returned in input order, the input not being in the order of
\* the URL numbers
C28_FaultDropsOneUrlReached ==
    /\ c_pc = "returned"
    /\ scrape_input = <<3, 1, 2>>
    /\ outcomes[1].kind = "exception"
    /\ outcomes[2].kind = "html" /\ outcomes[3].kind = "html"
    /\ Len(scraped_documents) = 2
    /\ scraped_documents[1].source = 1 /\ scraped_documents[2].source = 2

-----------------------------------------------------------------------------
(* build_source_map: the length of a snippet.                               *)

\* C29: every snippet of the source map has at most snippet_length
\* characters; it is the whole text of its window when that text has at most
\* snippet_length characters, and otherwise a preview of the text that ends
\* with an ellipsis.
C29_SnippetAtMostLength ==
    a_pc = "returned" =>
        \A idx \in DOMAIN returned.source_map :
            LET snippet == returned.source_map[idx].snippet
                chunk == results[idx].chunk
            IN  /\ Len(snippet) <= snippet_length
                /\ Len(chunk) <= snippet_length => snippet = chunk
                /\ Len(chunk) > snippet_length =>
                      /\ Len(snippet) >= Len(Ellipsis)
                      /\ Drop(snippet, Len(snippet) - Len(Ellipsis)) = Ellipsis

-----------------------------------------------------------------------------
(* chat: the conversation forwarded when there is no context.               *)

\* the messages of the received conversation that have content: not None,
\* not "undefined" in any case, not white space only
RECURSIVE WithContent(_)
WithContent(msgs) ==
    IF msgs = <<>> THEN <<>>
    ELSE LET c == msgs[1].content
         IN  (IF c # None /\ Lower(c) # Undefined
                 /\ (\E i \in DOMAIN c : c[i] \notin WhiteSpace)
              THEN <<msgs[1]>> ELSE <<>>)
             \o WithContent(Tail(msgs))

\* C30: when retrieval is disabled or gives no document, the handler raises
\* nothing and goes on with the prompt without context: the conversation it
\* forwards is the filtered conversation with its last message replaced by a
\* user message holding the base prompt built from that message's content;
\* the earlier messages are forwarded unchanged and in order.
C30_NoContextConversation ==
    (a_pc \in {"assembled", "raised"} /\ (~request_web_search \/ web_results = <<>>)) =>
        LET filtered == WithContent(conversation)
            n == Len(filtered)
        IN  /\ a_pc = "assembled"
            /\ formatted_prompt.kind = "base"
            /\ Len(forwarded) = n
            /\ \A i \in 1..(n - 1) : forwarded[i] = filtered[i]
            /\ forwarded[n].role = "user"
            /\ forwarded[n].content =
                  Collapse(filtered[n].content \o BaseInstructions)

\* with web search off, a conversation of an assistant message and a user
\* message, both with content, was forwarded
C30_HistoryForwardedReached ==
    /\ a_pc = "assembled"
    /\ ~request_web_search
    /\ conversation = <<Message("assistant", <<"c">>),
                        Message("user", <<"a", " ", " ", "b">>)>>
    /\ forwarded = <<Message("assistant", <<"c">>),
                     Message("user", <<"a", " ", "b", "\n", " ", "F">>)>>

-----------------------------------------------------------------------------
(* groq_chunks: nothing is kept back between fragments.                     *)

\* the text of the segments of one kind, in order
RECURSIVE SegmentText(_, _)
SegmentText(segs, think) ==
    IF segs = <<>> THEN <<>>
    ELSE (IF segs[1].think = think THEN segs[1].text ELSE <<>>)
         \o SegmentText(Tail(segs), think)

\* the number of whole markers the scan of s finds, beginning inside or
\* outside a block
RECURSIVE MarkersFound(_, _)
MarkersFound(s, in_think) ==
    LET marker == IF in_think THEN ThinkEnd ELSE ThinkStart
        at == Find(s, marker)
    IN  IF at = -1 THEN <<>>
        ELSE <<marker>> \o MarkersFound(Drop(s, at + Len(marker)), ~in_think)

RECURSIVE TotalLen(_)
TotalLen(seqs) == IF seqs = <<>> THEN 0 ELSE Len(seqs[1]) + TotalLen(Tail(seqs))

\* C31: for every fragment without a reasoning field, however the text is
\* cut, the chunk yielded for the fragment holds every character of the
\* fragment that is not part of a whole marker found inside the fragment,
\* content as content and reasoning as reasoning; what is yielded and the
\* state left depend on the fragment and on the inside-block boolean only,
\* and the boolean is flipped once per marker found.
C31_NothingWithheld ==
    [][(nfrags' = nfrags + 1 /\ ~field_used') =>
          LET content == SubSeq(text, pos + 1, pos')
              segs == Segments(content, in_think_block)
              found == MarkersFound(content, in_think_block)
              emitted_content == ConcatContent(NewChunks)
              emitted_thinking == ConcatThinking(NewChunks)
          IN  /\ Len(NewChunks) <= 1
              /\ emitted_content = SegmentText(segs, FALSE)
              /\ emitted_thinking = SegmentText(segs, TRUE)
              /\ Len(emitted_content) + Len(emitted_thinking) + TotalLen(found)
                    = Len(content)
              /\ in_think_block' = (in_think_block = (Len(found) % 2 = 0))]_vars

\* the text "<think>a" was cut inside the marker: the first fragment "<thi"
\* has been yielded as content, nothing of it is kept for the next fragment
C31_CutMarkerEmittedReached ==
    /\ g_pc = "run"
    /\ text = ThinkStart \o <<"a">>
    /\ pos = 4 /\ nfrags = 1 /\ ~field_used
    /\ chunks = << <<SubSeq(ThinkStart, 1, 4), None>> >>
    /\ ~in_think_block

-----------------------------------------------------------------------------
(* web_search: faults of the providers and of the crawler.                  *)

\* DuckDuckGo raised or gave no URL
PrimaryFailed == p_ddg.fault \/ p_ddg.hrefs = <<>>

\* the position of the first result without markdown, or one past the last
FirstMissing ==
    CHOOSE k \in 1..(Len(search_results) + 1) :
        /\ k <= Len(search_results) => p_crawl.markdown[k] = NoMarkdown
        /\ \A i \in 1..(k - 1) : p_crawl.markdown[i] # NoMarkdown

\* C32: web_search raises neither on a fault of a search provider nor on a
\* fault of the crawler.  When DuckDuckGo raises or gives no URL, Tavily is
\* asked exactly once, and otherwise not at all; when both fail the URL list
\* is empty and so is the document list; a fault during the crawl returns
\* the documents gathered before it: none when arun_many raised, and those
\* of the results before the first one without markdown otherwise.
C32_PipelineNeverRaises ==
    /\ p_pc # "raised"
    /\ p_pc \in {"crawl", "returned"} =>
          /\ p_tavily_calls = (IF PrimaryFailed THEN 1 ELSE 0)
          /\ (PrimaryFailed /\ p_tavily.fault) => search_results = <<>>
          /\ ~PrimaryFailed => search_results = p_ddg.hrefs
          /\ (PrimaryFailed /\ ~p_tavily.fault) => search_results = p_tavily.hrefs
          /\ ENABLED GetWebpageData \/ p_pc = "returned"
    /\ p_pc = "returned" =>
          /\ search_results = <<>> => p_docs = <<>>
          /\ p_crawl.fault => p_docs = <<>>
          /\ (search_results # <<>> /\ ~p_crawl.fault) =>
                p_docs = [i \in 1..(FirstMissing - 1) |->
                            [source |-> search_results[i],
                             page_content |-> p_crawl.markdown[i]]]

\* DuckDuckGo raised, Tavily gave two URLs, and the crawl met a result
\* without markdown at the second: the one document before it is returned
C32_CrawlFaultKeepsDocsReached ==
    /\ p_pc = "returned"
    /\ p_ddg.fault /\ p_tavily_calls = 1
    /\ Len(search_results) = 2
    /\ ~p_crawl.fault
    /\ p_crawl.markdown[1] = <<"m">> /\ p_crawl.markdown[2] = NoMarkdown
    /\ Len(p_docs) = 1

=============================================================================
